---- MODULE Spec2Model ----
(***************************************************************************)
(* StableDiffusionModelLoader (modules/modelLoader/                        *)
(* StableDiffusionModelLoader.py): one call of load(), stepped through     *)
(* its four try blocks and the statements of the four private strategies.  *)
(*                                                                         *)
(* Python values:                                                          *)
(*   - an optional value is a sequence: None is <<>>, a value x is <<x>>;  *)
(*   - a str is a sequence of chunks, + on str is \o; a file name is kept  *)
(*     as <<root, ext>>, which is what os.path.splitext splits it into;    *)
(*   - the file system and the wrapped libraries are the environment:      *)
(*     what is read twice (the sub-model folders, the default config, the  *)
(*     sibling .yaml/.yml) is fixed in Init, what is read once is drawn    *)
(*     when it is read and remembered in `seen`.                           *)
(***************************************************************************)
EXTENDS Naturals, Sequences, FiniteSets

\* Largest value of the train progress counter stored in meta.json.
MaxProgress == 2

None == <<>>
Some(x) == <<x>>

\* ModelType members named by the loader, and one member it does not name.
SDModelTypes ==
    { "STABLE_DIFFUSION_15", "STABLE_DIFFUSION_15_INPAINTING",
      "STABLE_DIFFUSION_20", "STABLE_DIFFUSION_20_BASE",
      "STABLE_DIFFUSION_20_INPAINTING", "STABLE_DIFFUSION_20_DEPTH",
      "STABLE_DIFFUSION_21", "STABLE_DIFFUSION_21_BASE" }

OtherModelType == "OTHER_MODEL_TYPE"

ModelTypes == SDModelTypes \cup {OtherModelType}

WeightDtypes == {"FLOAT_32", "FLOAT_16"}

\* base_model_name: str | None.  A str is <<root, ext>>.
BaseModelNames == { None, Some(<<"sd15", "">>), Some(<<"custom", ".safetensors">>) }

FsStates ==
    [ submodels   : {"ok", "broken"},
      default_cfg : {"readable", "missing"},
      yaml        : {"absent", "present", "unreadable"},
      yml         : {"absent", "present", "unreadable"} ]

VARIABLES
    model_type, weight_dtypes, base_model_name,  \* the arguments of load
    fs,            \* the files the strategies read more than once
    pc,            \* the statement load has reached
    seen,          \* what the reads done once have found
    train_progress, model, yaml_name, sd_config,  \* locals of the running strategy
    stacktraces,   \* load's list of collected stack traces
    printed,       \* what load has printed
    attempts,      \* the strategy calls load has made, with their arguments
    sub_loads,     \* the strategies that loaded the sub-model folders
    convert_calls, \* the calls of download_from_original_stable_diffusion_ckpt
    result,        \* the model load returned (None before)
    returned_by,   \* the strategy whose model load returned
    raised         \* the exception that left load (None before)

inputs == <<model_type, weight_dtypes, base_model_name, fs>>
locals == <<train_progress, model, yaml_name, sd_config>>
vars == <<model_type, weight_dtypes, base_model_name, fs, pc, seen,
          train_progress, model, yaml_name, sd_config, stacktraces, printed, attempts,
          sub_loads, convert_calls, result, returned_by, raised>>

----------------------------------------------------------------------------
\* Faulty variant of __default_yaml_name: the v-prediction and the base
\* config of Stable Diffusion 2.0 are exchanged.
default_yaml_name_v2_swapped(mt) ==
    CASE mt = "STABLE_DIFFUSION_15" ->
            Some(<<"resources/diffusers_model_config/v1-inference.yaml">>)
      [] mt = "STABLE_DIFFUSION_15_INPAINTING" ->
            Some(<<"resources/diffusers_model_config/v1-inpainting-inference.yaml">>)
      [] mt = "STABLE_DIFFUSION_20" ->
            Some(<<"resources/diffusers_model_config/v2-inference.yaml">>)
      [] mt = "STABLE_DIFFUSION_20_BASE" ->
            Some(<<"resources/diffusers_model_config/v2-inference-v.yaml">>)
      [] mt = "STABLE_DIFFUSION_20_INPAINTING" ->
            Some(<<"resources/diffusers_model_config/v2-inpainting-inference.yaml">>)
      [] mt = "STABLE_DIFFUSION_20_DEPTH" ->
            Some(<<"resources/diffusers_model_config/v2-midas-inference.yaml">>)
      [] mt = "STABLE_DIFFUSION_21" ->
            Some(<<"resources/diffusers_model_config/v2-inference-v.yaml">>)
      [] mt = "STABLE_DIFFUSION_21_BASE" ->
            Some(<<"resources/diffusers_model_config/v2-inference.yaml">>)
      [] OTHER -> None

\* __default_yaml_name
default_yaml_name(mt) ==
    CASE mt = "STABLE_DIFFUSION_15" ->
            Some(<<"resources/diffusers_model_config/v1-inference.yaml">>)
      [] mt = "STABLE_DIFFUSION_15_INPAINTING" ->
            Some(<<"resources/diffusers_model_config/v1-inpainting-inference.yaml">>)
      [] mt = "STABLE_DIFFUSION_20" ->
            Some(<<"resources/diffusers_model_config/v2-inference-v.yaml">>)
      [] mt = "STABLE_DIFFUSION_20_BASE" ->
            Some(<<"resources/diffusers_model_config/v2-inference.yaml">>)
      [] mt = "STABLE_DIFFUSION_20_INPAINTING" ->
            Some(<<"resources/diffusers_model_config/v2-inpainting-inference.yaml">>)
      [] mt = "STABLE_DIFFUSION_20_DEPTH" ->
            Some(<<"resources/diffusers_model_config/v2-midas-inference.yaml">>)
      [] mt = "STABLE_DIFFUSION_21" ->
            Some(<<"resources/diffusers_model_config/v2-inference-v.yaml">>)
      [] mt = "STABLE_DIFFUSION_21_BASE" ->
            Some(<<"resources/diffusers_model_config/v2-inference.yaml">>)
      [] OTHER -> None

\* ModelSpec(): the default model spec.
DefaultModelSpec == [origin |-> "default"]

\* ModelSpec.from_dict(...) of what was read from `origin`.
ModelSpecFrom(origin) == [origin |-> origin]

\* yaml.safe_load of the file `path`.
YamlLoad(path) == [loaded_from |-> path]

\* StableDiffusionModel(...) as the strategies construct it: the training
\* state is not passed and stays unset.
StableDiffusionModel(mt, dtypes, config, spec) ==
    [ model_type           |-> mt,
      dtypes               |-> dtypes,
      sd_config            |-> config,
      model_spec           |-> spec,
      optimizer_state_dict |-> None,
      ema_state_dict       |-> None,
      train_progress       |-> None ]

\* os.path.splitext(name)[0] + suffix, for a str name
Sibling(name, suffix) == <<name[1], suffix>>

\* os.path.exists of a sibling file
Exists(state) == state # "absent"

\* open(path, "r") of an optional path: None raises TypeError, a missing or
\* unreadable file raises OSError.
OpenError(path, state) ==
    IF path = None THEN "TypeError"
    ELSE IF state \in {"present", "readable"} THEN "none"
    ELSE "OSError"

\* The state of the file `path` names.
FileState(path, name) ==
    IF path = None \/ name = None THEN "absent"
    ELSE IF path[1] = Sibling(name[1], ".yaml") THEN fs.yaml
    ELSE IF path[1] = Sibling(name[1], ".yml") THEN fs.yml
    ELSE fs.default_cfg

\* __load_diffusers: the sub-models, then the default config, then the model.
load_diffusers(mt, dtypes, name) ==
    IF fs.submodels # "ok"
    THEN [ok |-> FALSE, error |-> "OSError", loaded |-> FALSE, model |-> None]
    ELSE LET cfg == default_yaml_name(mt)
             err == OpenError(cfg, fs.default_cfg)
         IN IF err # "none"
            THEN [ok |-> FALSE, error |-> err, loaded |-> TRUE, model |-> None]
            ELSE [ok |-> TRUE, error |-> "none", loaded |-> TRUE,
                  model |-> Some(StableDiffusionModel(mt, dtypes,
                                     YamlLoad(cfg[1]), DefaultModelSpec))]

----------------------------------------------------------------------------
\* Faulty variant of load: the diffusers try block is missing.
AfterFailureSkipsDiffusers(s) ==
    CASE s = "internal"    -> "call_safetensors"
      [] s = "diffusers"   -> "call_safetensors"
      [] s = "safetensors" -> "call_ckpt"
      [] s = "ckpt"        -> "print"

\* load: the statement reached after the except clause of strategy s.
AfterFailure(s) ==
    CASE s = "internal"    -> "call_diffusers"
      [] s = "diffusers"   -> "call_safetensors"
      [] s = "safetensors" -> "call_ckpt"
      [] s = "ckpt"        -> "print"

\* Faulty variant of load: `except Exception:` in place of the bare except.
LoadCatchesExceptionOnly(err) == err # "KeyboardInterrupt"

\* load: the bare except clauses catch every error, KeyboardInterrupt included.
LoadCatches(err) == TRUE

\* traceback.format_exc() in the except clause of strategy s.
FormatExc(s, err) == [strategy |-> s, error |-> err]

\* load: a strategy raised err.
Fails(s, err) ==
    IF LoadCatches(err)
    THEN /\ stacktraces' = Append(stacktraces, FormatExc(s, err))
         /\ pc' = AfterFailure(s)
         /\ raised' = raised
    ELSE /\ stacktraces' = stacktraces
         /\ pc' = "raised"
         /\ raised' = Some([type |-> err, msg |-> <<>>])

\* load: `return model`.
Returns(s, m) ==
    /\ result' = Some(m)
    /\ returned_by' = Some(s)
    /\ pc' = "returned"
    /\ UNCHANGED <<stacktraces, raised>>

\* Faulty variant of load: extra_model_name (None here) is passed where
\* base_model_name belongs.
CallArgsExtraModelName(s) ==
    [ strategy |-> s, model_type |-> model_type,
      weight_dtypes |-> weight_dtypes, base_model_name |-> None ]

\* load: the call of strategy s with load's own arguments.
CallArgs(s) ==
    [ strategy |-> s, model_type |-> model_type,
      weight_dtypes |-> weight_dtypes, base_model_name |-> base_model_name ]

TypeOK ==
    /\ model_type \in ModelTypes
    /\ weight_dtypes \in WeightDtypes
    /\ base_model_name \in BaseModelNames
    /\ fs \in FsStates

Init ==
    /\ model_type \in ModelTypes
    /\ weight_dtypes \in WeightDtypes
    /\ base_model_name \in BaseModelNames
    /\ fs \in FsStates
    /\ pc = "call_internal"
    /\ seen = [ meta |-> "unread", optimizer |-> "unread", ema |-> "unread",
                spec_json |-> "unread", st_convert |-> "unread",
                st_metadata |-> "unread", ckpt_convert |-> "unread" ]
    /\ train_progress = None
    /\ model = None
    /\ yaml_name = None
    /\ sd_config = None
    /\ stacktraces = <<>>
    /\ printed = <<>>
    /\ attempts = <<>>
    /\ sub_loads = <<>>
    /\ convert_calls = <<>>
    /\ result = None
    /\ returned_by = None
    /\ raised = None

\* The arguments the running strategy was called with.
Arg == attempts[Len(attempts)]

----------------------------------------------------------------------------
\* load, line 268: self.__load_internal(model_type, weight_dtypes, base_model_name)
CallInternal ==
    /\ pc = "call_internal"
    /\ attempts' = Append(attempts, CallArgs("internal"))
    /\ pc' = "internal_meta"
    /\ UNCHANGED <<inputs, seen, locals, stacktraces, printed, sub_loads,
                   convert_calls, result, returned_by, raised>>

MetaOutcomes == {"ok", "missing", "unparsable", "no_train_progress"}

\* The error open/json.load/meta[...] raises on meta.json.
MetaError(outcome) ==
    CASE outcome = "missing"           -> "FileNotFoundError"
      [] outcome = "unparsable"        -> "JSONDecodeError"
      [] outcome = "no_train_progress" -> "KeyError"
      [] OTHER                         -> "none"

\* __load_internal: meta.json and its train_progress.
InternalReadMeta ==
    /\ pc = "internal_meta"
    /\ IF Arg.base_model_name = None
       THEN /\ Fails("internal", "TypeError")
            /\ UNCHANGED <<seen, train_progress>>
       ELSE \E outcome \in MetaOutcomes :
              /\ seen' = [seen EXCEPT !.meta = outcome]
              /\ IF MetaError(outcome) = "none"
                 THEN /\ \E p \in 1..MaxProgress : train_progress' = Some(p)
                      /\ pc' = "internal_base"
                      /\ UNCHANGED <<stacktraces, raised>>
                 ELSE /\ Fails("internal", MetaError(outcome))
                      /\ UNCHANGED train_progress
    /\ UNCHANGED <<inputs, model, yaml_name, sd_config, printed, attempts,
                   sub_loads, convert_calls, result, returned_by>>

\* __load_internal: the base model, by __load_diffusers.
InternalLoadBase ==
    /\ pc = "internal_base"
    /\ LET r == load_diffusers(Arg.model_type, Arg.weight_dtypes, Arg.base_model_name)
       IN /\ sub_loads' = IF r.loaded THEN Append(sub_loads, "internal") ELSE sub_loads
          /\ IF r.ok
             THEN /\ model' = r.model
                  /\ pc' = "internal_optimizer"
                  /\ UNCHANGED <<stacktraces, raised>>
             ELSE /\ Fails("internal", r.error)
                  /\ UNCHANGED model
    /\ UNCHANGED <<inputs, seen, train_progress, yaml_name, sd_config, printed,
                   attempts, convert_calls, result, returned_by>>

StateFileOutcomes == {"ok", "missing", "corrupt"}

\* The error torch.load raises on optimizer.pt or ema.pt.
TorchLoadError(outcome) ==
    CASE outcome = "missing" -> "FileNotFoundError"
      [] outcome = "corrupt" -> "UnpicklingError"
      [] OTHER               -> "none"

\* Faulty variant of __load_internal: a bare `except: pass`.
InternalToleratesAnyError(err) == TRUE

\* __load_internal: `except FileNotFoundError: pass`.
InternalTolerates(err) == err = "FileNotFoundError"

\* __load_internal: optimizer.pt.
InternalLoadOptimizer ==
    /\ pc = "internal_optimizer"
    /\ \E outcome \in StateFileOutcomes :
         LET err == TorchLoadError(outcome)
         IN /\ seen' = [seen EXCEPT !.optimizer = outcome]
            /\ IF err = "none"
               THEN /\ model' = Some([model[1] EXCEPT
                                  !.optimizer_state_dict = Some("optimizer.pt")])
                    /\ pc' = "internal_ema"
                    /\ UNCHANGED <<stacktraces, raised>>
               ELSE IF InternalTolerates(err)
               THEN /\ pc' = "internal_ema"
                    /\ UNCHANGED <<model, stacktraces, raised>>
               ELSE /\ Fails("internal", err)
                    /\ UNCHANGED model
    /\ UNCHANGED <<inputs, train_progress, yaml_name, sd_config, printed,
                   attempts, sub_loads, convert_calls, result, returned_by>>

\* __load_internal: ema.pt.
InternalLoadEma ==
    /\ pc = "internal_ema"
    /\ \E outcome \in StateFileOutcomes :
         LET err == TorchLoadError(outcome)
         IN /\ seen' = [seen EXCEPT !.ema = outcome]
            /\ IF err = "none"
               THEN /\ model' = Some([model[1] EXCEPT
                                  !.ema_state_dict = Some("ema.pt")])
                    /\ pc' = "internal_config"
                    /\ UNCHANGED <<stacktraces, raised>>
               ELSE IF InternalTolerates(err)
               THEN /\ pc' = "internal_config"
                    /\ UNCHANGED <<model, stacktraces, raised>>
               ELSE /\ Fails("internal", err)
                    /\ UNCHANGED model
    /\ UNCHANGED <<inputs, train_progress, yaml_name, sd_config, printed,
                   attempts, sub_loads, convert_calls, result, returned_by>>

\* __load_internal: the default config again, then model.train_progress.
InternalConfig ==
    /\ pc = "internal_config"
    /\ LET cfg == default_yaml_name(Arg.model_type)
           err == OpenError(cfg, fs.default_cfg)
       IN IF err = "none"
          THEN /\ model' = Some([model[1] EXCEPT
                                   !.sd_config = YamlLoad(cfg[1]),
                                   !.train_progress = train_progress])
               /\ pc' = "internal_spec"
               /\ UNCHANGED <<stacktraces, raised>>
          ELSE /\ Fails("internal", err)
               /\ UNCHANGED model
    /\ UNCHANGED <<inputs, seen, train_progress, yaml_name, sd_config, printed,
                   attempts, sub_loads, convert_calls, result, returned_by>>

SpecJsonOutcomes == {"ok", "missing", "unparsable"}

\* __load_internal: ModelSpec(), then model_spec.json under a bare except.
internal_model_spec(outcome) ==
    IF outcome = "ok" THEN ModelSpecFrom("model_spec.json") ELSE DefaultModelSpec

\* __load_internal: the model spec, and `return model`.
InternalModelSpec ==
    /\ pc = "internal_spec"
    /\ \E outcome \in SpecJsonOutcomes :
         /\ seen' = [seen EXCEPT !.spec_json = outcome]
         /\ model' = Some([model[1] EXCEPT !.model_spec = internal_model_spec(outcome)])
         /\ Returns("internal", model'[1])
    /\ UNCHANGED <<inputs, train_progress, yaml_name, sd_config, printed,
                   attempts, sub_loads, convert_calls>>

----------------------------------------------------------------------------
\* load, line 275: self.__load_diffusers(model_type, weight_dtypes, base_model_name)
CallDiffusers ==
    /\ pc = "call_diffusers"
    /\ attempts' = Append(attempts, CallArgs("diffusers"))
    /\ pc' = "diffusers_load"
    /\ UNCHANGED <<inputs, seen, locals, stacktraces, printed, sub_loads,
                   convert_calls, result, returned_by, raised>>

\* __load_diffusers, called by load.
DiffusersLoad ==
    /\ pc = "diffusers_load"
    /\ LET r == load_diffusers(Arg.model_type, Arg.weight_dtypes, Arg.base_model_name)
       IN /\ sub_loads' = IF r.loaded THEN Append(sub_loads, "diffusers") ELSE sub_loads
          /\ IF r.ok
             THEN Returns("diffusers", r.model[1])
             ELSE /\ Fails("diffusers", r.error)
                  /\ UNCHANGED <<result, returned_by>>
    /\ UNCHANGED <<inputs, seen, locals, printed, attempts, convert_calls>>

----------------------------------------------------------------------------
\* load, line 282: self.__load_safetensors(model_type, weight_dtypes, base_model_name)
CallSafetensors ==
    /\ pc = "call_safetensors"
    /\ attempts' = Append(attempts, CallArgs("safetensors"))
    /\ pc' = "safetensors_yaml"
    /\ UNCHANGED <<inputs, seen, locals, stacktraces, printed, sub_loads,
                   convert_calls, result, returned_by, raised>>

\* __load_safetensors: the config file of the str `name`.
safetensors_yaml_name(mt, name) ==
    IF Exists(fs.yaml) THEN Some(Sibling(name, ".yaml"))
    ELSE IF Exists(fs.yml) THEN Some(Sibling(name, ".yml"))
    ELSE default_yaml_name(mt)

\* __load_safetensors: yaml_name.  os.path.splitext(None) raises TypeError.
SafetensorsResolveYaml ==
    /\ pc = "safetensors_yaml"
    /\ IF Arg.base_model_name = None
       THEN /\ Fails("safetensors", "TypeError")
            /\ UNCHANGED yaml_name
       ELSE /\ yaml_name' = safetensors_yaml_name(Arg.model_type, Arg.base_model_name[1])
            /\ pc' = "safetensors_convert"
            /\ UNCHANGED <<stacktraces, raised>>
    /\ UNCHANGED <<inputs, seen, train_progress, model, sd_config, printed,
                   attempts, sub_loads, convert_calls, result, returned_by>>

ConvertOutcomes == {"ok", "error", "interrupted"}

\* The error the conversion raises: a library error, or the user's Ctrl-C
\* during the long-running conversion.
ConvertError(outcome) ==
    CASE outcome = "error"       -> "RuntimeError"
      [] outcome = "interrupted" -> "KeyboardInterrupt"
      [] OTHER                   -> "none"

\* download_from_original_stable_diffusion_ckpt(checkpoint_path, original_config_file, ...)
ConvertCall(s, name, config, from_safetensors) ==
    [ strategy |-> s, checkpoint_path |-> name,
      original_config_file |-> config, from_safetensors |-> from_safetensors ]

\* __load_safetensors: the conversion of the checkpoint.
SafetensorsConvert ==
    /\ pc = "safetensors_convert"
    /\ convert_calls' = Append(convert_calls,
           ConvertCall("safetensors", Arg.base_model_name, yaml_name, TRUE))
    /\ \E outcome \in ConvertOutcomes :
         /\ seen' = [seen EXCEPT !.st_convert = outcome]
         /\ IF outcome = "ok"
            THEN /\ pc' = "safetensors_config"
                 /\ UNCHANGED <<stacktraces, raised>>
            ELSE Fails("safetensors", ConvertError(outcome))
    /\ UNCHANGED <<inputs, locals, printed, attempts, sub_loads, result, returned_by>>

\* __load_safetensors: sd_config, read from yaml_name.
SafetensorsConfig ==
    /\ pc = "safetensors_config"
    /\ LET err == OpenError(yaml_name, FileState(yaml_name, Arg.base_model_name))
       IN IF err = "none"
          THEN /\ sd_config' = Some(YamlLoad(yaml_name[1]))
               /\ pc' = "safetensors_spec"
               /\ UNCHANGED <<stacktraces, raised>>
          ELSE /\ Fails("safetensors", err)
               /\ UNCHANGED sd_config
    /\ UNCHANGED <<inputs, seen, train_progress, model, yaml_name, printed,
                   attempts, sub_loads, convert_calls, result, returned_by>>

MetadataOutcomes == {"error", "no_key", "key_ok", "key_bad"}

\* Faulty variant of __load_safetensors: the metadata is used without the
\* test for 'modelspec.sai_model_spec'.
safetensors_model_spec_no_key_check(outcome) ==
    IF outcome \in {"key_ok", "no_key"} THEN ModelSpecFrom("safetensors_metadata")
    ELSE DefaultModelSpec

\* __load_safetensors: ModelSpec(), then the file's metadata under a bare
\* except: "error" is safe_open or f.metadata() raising, "no_key" metadata
\* without 'modelspec.sai_model_spec', "key_bad" ModelSpec.from_dict raising.
safetensors_model_spec(outcome) ==
    IF outcome = "key_ok" THEN ModelSpecFrom("safetensors_metadata")
    ELSE DefaultModelSpec

\* __load_safetensors: the model spec, and the returned model.
SafetensorsModelSpec ==
    /\ pc = "safetensors_spec"
    /\ \E outcome \in MetadataOutcomes :
         /\ seen' = [seen EXCEPT !.st_metadata = outcome]
         /\ Returns("safetensors",
                StableDiffusionModel(Arg.model_type, Arg.weight_dtypes,
                                     sd_config[1], safetensors_model_spec(outcome)))
    /\ UNCHANGED <<inputs, locals, printed, attempts, sub_loads, convert_calls>>

----------------------------------------------------------------------------
\* load, line 289: self.__load_ckpt(model_type, weight_dtypes, base_model_name)
CallCkpt ==
    /\ pc = "call_ckpt"
    /\ attempts' = Append(attempts, CallArgs("ckpt"))
    /\ pc' = "ckpt_yaml"
    /\ UNCHANGED <<inputs, seen, locals, stacktraces, printed, sub_loads,
                   convert_calls, result, returned_by, raised>>

\* Faulty variant of __load_ckpt: the sibling .yml is tried before the .yaml.
ckpt_yaml_name_yml_first(mt, name) ==
    IF Exists(fs.yml) THEN Some(Sibling(name, ".yml"))
    ELSE IF Exists(fs.yaml) THEN Some(Sibling(name, ".yaml"))
    ELSE default_yaml_name(mt)

\* __load_ckpt: the config file of the str `name`.
ckpt_yaml_name(mt, name) ==
    IF Exists(fs.yaml) THEN Some(Sibling(name, ".yaml"))
    ELSE IF Exists(fs.yml) THEN Some(Sibling(name, ".yml"))
    ELSE default_yaml_name(mt)

\* __load_ckpt: yaml_name.
CkptResolveYaml ==
    /\ pc = "ckpt_yaml"
    /\ IF Arg.base_model_name = None
       THEN /\ Fails("ckpt", "TypeError")
            /\ UNCHANGED yaml_name
       ELSE /\ yaml_name' = ckpt_yaml_name(Arg.model_type, Arg.base_model_name[1])
            /\ pc' = "ckpt_convert"
            /\ UNCHANGED <<stacktraces, raised>>
    /\ UNCHANGED <<inputs, seen, train_progress, model, sd_config, printed,
                   attempts, sub_loads, convert_calls, result, returned_by>>

\* __load_ckpt: the conversion of the checkpoint.
CkptConvert ==
    /\ pc = "ckpt_convert"
    /\ convert_calls' = Append(convert_calls,
           ConvertCall("ckpt", Arg.base_model_name, yaml_name, FALSE))
    /\ \E outcome \in ConvertOutcomes :
         /\ seen' = [seen EXCEPT !.ckpt_convert = outcome]
         /\ IF outcome = "ok"
            THEN /\ pc' = "ckpt_config"
                 /\ UNCHANGED <<stacktraces, raised>>
            ELSE Fails("ckpt", ConvertError(outcome))
    /\ UNCHANGED <<inputs, locals, printed, attempts, sub_loads, result, returned_by>>

\* __load_ckpt: sd_config read from yaml_name, ModelSpec(), the returned model.
CkptConfig ==
    /\ pc = "ckpt_config"
    /\ LET err == OpenError(yaml_name, FileState(yaml_name, Arg.base_model_name))
       IN IF err = "none"
          THEN /\ sd_config' = Some(YamlLoad(yaml_name[1]))
               /\ Returns("ckpt",
                      StableDiffusionModel(Arg.model_type, Arg.weight_dtypes,
                                           sd_config'[1], DefaultModelSpec))
          ELSE /\ Fails("ckpt", err)
               /\ UNCHANGED <<sd_config, result, returned_by>>
    /\ UNCHANGED <<inputs, seen, train_progress, model, yaml_name, printed,
                   attempts, sub_loads, convert_calls>>

----------------------------------------------------------------------------
\* Faulty variant of load: the traces are printed last first.
NextToPrintReversed == stacktraces[Len(stacktraces) - Len(printed)]

\* load: the stack trace the for loop prints next.
NextToPrint == stacktraces[Len(printed) + 1]

\* load: one turn of `for stacktrace in stacktraces: print(stacktrace)`.
PrintStacktrace ==
    /\ pc = "print"
    /\ Len(printed) < Len(stacktraces)
    /\ printed' = Append(printed, NextToPrint)
    /\ UNCHANGED <<inputs, pc, seen, locals, stacktraces, attempts, sub_loads,
                   convert_calls, result, returned_by, raised>>

\* load: Exception("could not load model: " + base_model_name); + on a str
\* and None raises TypeError before the Exception is made.
FinalException(name) ==
    IF name = None
    THEN [type |-> "TypeError", msg |-> <<"can only concatenate str (not NoneType) to str">>]
    ELSE [type |-> "Exception", msg |-> <<"could not load model: ">> \o name[1]]

\* load: the raise statement after the loop.
RaiseFinal ==
    /\ pc = "print"
    /\ Len(printed) = Len(stacktraces)
    /\ raised' = Some(FinalException(base_model_name))
    /\ pc' = "raised"
    /\ UNCHANGED <<inputs, seen, locals, stacktraces, printed, attempts,
                   sub_loads, convert_calls, result, returned_by>>

----------------------------------------------------------------------------
Next ==
    \/ CallInternal
    \/ InternalReadMeta
    \/ InternalLoadBase
    \/ InternalLoadOptimizer
    \/ InternalLoadEma
    \/ InternalConfig
    \/ InternalModelSpec
    \/ CallDiffusers
    \/ DiffusersLoad
    \/ CallSafetensors
    \/ SafetensorsResolveYaml
    \/ SafetensorsConvert
    \/ SafetensorsConfig
    \/ SafetensorsModelSpec
    \/ CallCkpt
    \/ CkptResolveYaml
    \/ CkptConvert
    \/ CkptConfig
    \/ PrintStacktrace
    \/ RaiseFinal

Spec == Init /\ [][Next]_vars

----------------------------------------------------------------------------
\* What the claims are stated against.
Strategies == {"internal", "diffusers", "safetensors", "ckpt"}

PriorityOrder == <<"internal", "diffusers", "safetensors", "ckpt">>

\* The strategies that have a stack trace in load's list.
FailedStrategies == { stacktraces[k].strategy : k \in 1..Len(stacktraces) }

\* The call of strategy s with the arguments load itself was given.
SameArgsCall(s) ==
    [ strategy |-> s, model_type |-> model_type,
      weight_dtypes |-> weight_dtypes, base_model_name |-> base_model_name ]

\* C1: load attempts internal, diffusers, safetensors, ckpt in that order; a
\* strategy is attempted only if every strategy before it has failed; the
\* returned model is the one of the first strategy that succeeds, and nothing
\* is attempted after it.
C1_PriorityOrder ==
    /\ Len(attempts) <= 4
    /\ \A i \in 1..Len(attempts) : attempts[i].strategy = PriorityOrder[i]
    /\ \A i \in 1..Len(attempts) :
         \A j \in 1..(i - 1) : PriorityOrder[j] \in FailedStrategies
    /\ result # None =>
         /\ pc = "returned"
         /\ returned_by = Some(attempts[Len(attempts)].strategy)
         /\ returned_by[1] \notin FailedStrategies
         /\ result[1].model_type = model_type

\* C1 witness: safetensors returns the model after internal and diffusers failed.
C1_Witness ==
    /\ pc = "returned"
    /\ returned_by = Some("safetensors")
    /\ FailedStrategies = {"internal", "diffusers"}

\* C2: an error of the internal, diffusers or safetensors strategy never
\* leaves load by itself, and the next strategy is then called with load's
\* own model_type, weight_dtypes and base_model_name.
C2_FailureIsCaught ==
    /\ raised # None => /\ pc = "raised"
                        /\ FailedStrategies = Strategies
    /\ \A i \in 1..3 :
         PriorityOrder[i] \in FailedStrategies =>
           \/ /\ Len(attempts) = i
              /\ pc = "call_diffusers" \/ pc = "call_safetensors" \/ pc = "call_ckpt"
           \/ /\ Len(attempts) > i
              /\ attempts[i + 1] = SameArgsCall(PriorityOrder[i + 1])

\* C2 witness: three different errors were caught and ckpt was still called.
C2_Witness ==
    /\ Len(attempts) = 4
    /\ Len(stacktraces) >= 3
    /\ stacktraces[1].error = "KeyError"
    /\ stacktraces[2].error = "OSError"
    /\ stacktraces[3].error = "KeyboardInterrupt"
    /\ attempts[4] = SameArgsCall("ckpt")

\* C3: load never returns None: it returns a strategy's model, or, all four
\* strategies having failed, raises the Exception whose message is
\* 'could not load model: ' followed by base_model_name (a str or None).
C3_ModelOrCouldNotLoad ==
    /\ pc = "returned" => result # None /\ returned_by # None
    /\ pc = "raised" =>
         /\ FailedStrategies = Strategies
         /\ raised # None
         /\ raised[1].type = "Exception"
         /\ Len(raised[1].msg) >= 1
         /\ raised[1].msg[1] = "could not load model: "
         /\ base_model_name # None =>
              raised[1].msg = <<"could not load model: ">> \o base_model_name[1]

\* C4: one stack trace per failed strategy, in attempt order; the traces are
\* printed only when all four strategies have failed, all of them and in
\* that order, before the final exception; when a strategy succeeds nothing
\* is printed.
C4_StackTraces ==
    /\ \A k \in 1..Len(stacktraces) :
         /\ k <= Len(attempts)
         /\ stacktraces[k].strategy = attempts[k].strategy
         /\ stacktraces[k].strategy = PriorityOrder[k]
    /\ Len(stacktraces) =
         IF pc \in {"call_internal", "call_diffusers", "call_safetensors",
                    "call_ckpt", "print", "raised"}
         THEN Len(attempts) ELSE Len(attempts) - 1
    /\ Len(printed) <= Len(stacktraces)
    /\ \A k \in 1..Len(printed) : printed[k] = stacktraces[k]
    /\ printed # <<>> => pc \in {"print", "raised"} /\ Len(stacktraces) = 4
    /\ pc = "raised" => printed = stacktraces /\ Len(printed) = 4
    /\ pc = "returned" => printed = <<>>

\* C4 witness: all four traces were printed, in order, and load has raised.
C4_Witness ==
    /\ pc = "raised"
    /\ Len(printed) = 4
    /\ printed[1].error = "JSONDecodeError"
    /\ printed[4].error = "RuntimeError"

\* The documented table of default config files.
TableHolds ==
    /\ \A mt \in SDModelTypes :
         /\ Len(default_yaml_name(mt)) = 1
         /\ Len(default_yaml_name(mt)[1]) = 1
         /\ default_yaml_name(mt)[1][1] \in
              { "resources/diffusers_model_config/v1-inference.yaml",
                "resources/diffusers_model_config/v1-inpainting-inference.yaml",
                "resources/diffusers_model_config/v2-inference-v.yaml",
                "resources/diffusers_model_config/v2-inference.yaml",
                "resources/diffusers_model_config/v2-inpainting-inference.yaml",
                "resources/diffusers_model_config/v2-midas-inference.yaml" }
    /\ default_yaml_name("STABLE_DIFFUSION_15")[1][1] =
         "resources/diffusers_model_config/v1-inference.yaml"
    /\ default_yaml_name("STABLE_DIFFUSION_15_INPAINTING")[1][1] =
         "resources/diffusers_model_config/v1-inpainting-inference.yaml"
    /\ default_yaml_name("STABLE_DIFFUSION_20")[1][1] =
         "resources/diffusers_model_config/v2-inference-v.yaml"
    /\ default_yaml_name("STABLE_DIFFUSION_21")[1][1] =
         "resources/diffusers_model_config/v2-inference-v.yaml"
    /\ default_yaml_name("STABLE_DIFFUSION_20_BASE")[1][1] =
         "resources/diffusers_model_config/v2-inference.yaml"
    /\ default_yaml_name("STABLE_DIFFUSION_21_BASE")[1][1] =
         "resources/diffusers_model_config/v2-inference.yaml"
    /\ default_yaml_name("STABLE_DIFFUSION_20_INPAINTING")[1][1] =
         "resources/diffusers_model_config/v2-inpainting-inference.yaml"
    /\ default_yaml_name("STABLE_DIFFUSION_20_DEPTH")[1][1] =
         "resources/diffusers_model_config/v2-midas-inference.yaml"
    /\ \A mt \in ModelTypes \ SDModelTypes : default_yaml_name(mt) = None

\* C5 as stated: the lookup follows the table, maps every other model type to
\* None, and gives a config file for every model type load returns a model of.
C5_ConfigForEveryLoadedType ==
    /\ TableHolds
    /\ pc = "returned" => default_yaml_name(result[1].model_type) # None

\* C5 amended: the lookup follows the table and maps every other model type
\* to None; it gives a config file, the one the model carries, for every
\* model the internal or diffusers strategy returns, and a model of a type
\* without a default config is returned only by the safetensors or ckpt
\* strategy, with the sibling config it found.
C5_DefaultYamlTable ==
    /\ TableHolds
    /\ pc = "returned" /\ returned_by[1] \in {"internal", "diffusers"} =>
         /\ default_yaml_name(model_type) # None
         /\ result[1].sd_config = YamlLoad(default_yaml_name(model_type)[1])
    /\ pc = "returned" /\ default_yaml_name(result[1].model_type) = None =>
         /\ returned_by[1] \in {"safetensors", "ckpt"}
         /\ fs.yaml = "present" \/ fs.yml = "present"
         /\ result[1].sd_config.loaded_from[2] \in {".yaml", ".yml"}

\* C5 witness: a model of a type without a default config is returned.
C5_Witness ==
    /\ pc = "returned"
    /\ result[1].model_type = OtherModelType
    /\ default_yaml_name(OtherModelType) = None
    /\ returned_by = Some("safetensors")

\* C6: the model spec of a returned model is the embedded one when it is
\* there (model_spec.json read and parsed; safetensors metadata holding
\* 'modelspec.sai_model_spec') and the default ModelSpec otherwise; reading
\* it never fails a strategy; diffusers and ckpt always give the default.
C6_ModelSpec ==
    /\ seen.spec_json # "unread" => pc = "returned" /\ returned_by = Some("internal")
    /\ seen.st_metadata # "unread" => pc = "returned" /\ returned_by = Some("safetensors")
    /\ pc = "returned" =>
         result[1].model_spec =
           CASE returned_by[1] = "internal" ->
                  IF seen.spec_json = "ok" THEN [origin |-> "model_spec.json"]
                  ELSE [origin |-> "default"]
             [] returned_by[1] = "safetensors" ->
                  IF seen.st_metadata = "key_ok" THEN [origin |-> "safetensors_metadata"]
                  ELSE [origin |-> "default"]
             [] OTHER -> [origin |-> "default"]

\* C6 witness: safetensors metadata without the key leaves the default spec.
C6_Witness ==
    /\ pc = "returned"
    /\ returned_by = Some("safetensors")
    /\ seen.st_metadata = "no_key"
    /\ result[1].model_spec = DefaultModelSpec

\* C7: the internal strategy fails before any sub-model is loaded when
\* meta.json is missing, unparsable or without train_progress; a missing
\* optimizer.pt or ema.pt is tolerated and leaves that state unset on the
\* returned model, whose train progress is the one of meta.json; any other
\* error on optimizer.pt or ema.pt fails the internal strategy.
C7_InternalStateFiles ==
    /\ seen.meta \in {"missing", "unparsable", "no_train_progress"} =>
         /\ "internal" \in FailedStrategies
         /\ stacktraces[1].error \in {"FileNotFoundError", "JSONDecodeError", "KeyError"}
         /\ \A k \in 1..Len(sub_loads) : sub_loads[k] # "internal"
         /\ seen.optimizer = "unread" /\ seen.ema = "unread"
    /\ \A k \in 1..Len(sub_loads) : sub_loads[k] = "internal" => seen.meta = "ok"
    /\ seen.optimizer = "missing" =>
         /\ pc # "internal_optimizer"
         /\ seen.ema = "unread" => pc = "internal_ema"
    /\ seen.ema = "missing" =>
         /\ pc # "internal_ema"
         /\ "internal" \in FailedStrategies => stacktraces[1].error \in {"TypeError", "OSError"}
    /\ seen.optimizer = "corrupt" \/ seen.ema = "corrupt" =>
         /\ "internal" \in FailedStrategies
         /\ stacktraces[1].error = "UnpicklingError"
         /\ returned_by # Some("internal")
    /\ pc = "returned" /\ returned_by = Some("internal") =>
         /\ seen.meta = "ok"
         /\ train_progress # None
         /\ result[1].train_progress = train_progress
         /\ result[1].optimizer_state_dict =
              (IF seen.optimizer = "ok" THEN Some("optimizer.pt") ELSE None)
         /\ result[1].ema_state_dict =
              (IF seen.ema = "ok" THEN Some("ema.pt") ELSE None)
         /\ seen.optimizer \in {"ok", "missing"}
         /\ seen.ema \in {"ok", "missing"}

\* C7 witness: the internal strategy returns a model without optimizer state
\* (optimizer.pt missing), with EMA state and meta.json's train progress.
C7_Witness ==
    /\ pc = "returned"
    /\ returned_by = Some("internal")
    /\ seen.optimizer = "missing"
    /\ seen.ema = "ok"
    /\ result[1].optimizer_state_dict = None
    /\ result[1].train_progress = Some(MaxProgress)

\* The config file C8 names for a str base_model_name: the sibling .yaml if
\* it exists, else the sibling .yml if it exists, else the default config.
ConfigByPrecedence ==
    IF fs.yaml # "absent" THEN Some(<<base_model_name[1][1], ".yaml">>)
    ELSE IF fs.yml # "absent" THEN Some(<<base_model_name[1][1], ".yml">>)
    ELSE default_yaml_name(model_type)

\* C8: ckpt and safetensors choose the config file by that precedence, use
\* the one file for the conversion and for the returned model's sd_config,
\* and choose the same file for the same inputs.
C8_ConfigPrecedence ==
    /\ \A k \in 1..Len(convert_calls) :
         /\ base_model_name # None
         /\ convert_calls[k].checkpoint_path = base_model_name
         /\ convert_calls[k].original_config_file = ConfigByPrecedence
         /\ convert_calls[k].from_safetensors = (convert_calls[k].strategy = "safetensors")
    /\ Len(convert_calls) = 2 =>
         convert_calls[1].original_config_file = convert_calls[2].original_config_file
    /\ pc = "returned" /\ returned_by[1] \in {"safetensors", "ckpt"} =>
         /\ ConfigByPrecedence # None
         /\ result[1].sd_config = [loaded_from |-> ConfigByPrecedence[1]]
         /\ convert_calls[Len(convert_calls)].strategy = returned_by[1]
         /\ convert_calls[Len(convert_calls)].original_config_file =
              Some(result[1].sd_config.loaded_from)

\* C8 witness: no sibling .yaml, a sibling .yml: both strategies chose the
\* .yml and ckpt returned a model carrying it.
C8_Witness ==
    /\ pc = "returned"
    /\ returned_by = Some("ckpt")
    /\ fs.yaml = "absent" /\ fs.yml = "present"
    /\ Len(convert_calls) = 2
    /\ convert_calls[1].strategy = "safetensors"
    /\ result[1].sd_config.loaded_from[2] = ".yml"

NoTrainingState(m) ==
    /\ m.optimizer_state_dict = None
    /\ m.ema_state_dict = None
    /\ m.train_progress = None

\* C9 as stated: whenever the internal strategy has failed, load falls back
\* to the diffusers strategy and returns its model, without training state
\* and without an error reaching the caller.
C9_FallbackAlwaysReturns ==
    /\ pc = "returned" /\ returned_by # Some("internal") => NoTrainingState(result[1])
    /\ "internal" \in FailedStrategies =>
         /\ pc \in {"call_diffusers", "diffusers_load", "returned"}
         /\ pc = "returned" => returned_by = Some("diffusers")
         /\ raised = None

\* C9 amended: only a model of the internal strategy carries training state;
\* whenever the internal strategy has failed, the diffusers strategy is called
\* on the same base_model_name; when it succeeds it has loaded the sub-models
\* (again, if the internal strategy had loaded them) and load returns its
\* model without training state, nothing printed, nothing raised; when it
\* fails too, load goes on to safetensors and ckpt, whose models carry no
\* training state either.
C9_TrainingStateOnlyInternal ==
    /\ pc = "returned" /\ returned_by # Some("internal") => NoTrainingState(result[1])
    /\ "internal" \in FailedStrategies =>
         \/ pc = "call_diffusers" /\ Len(attempts) = 1
         \/ /\ Len(attempts) >= 2
            /\ attempts[2] = SameArgsCall("diffusers")
    /\ pc = "returned" /\ returned_by = Some("diffusers") =>
         /\ "internal" \in FailedStrategies
         /\ sub_loads[Len(sub_loads)] = "diffusers"
         /\ seen.optimizer = "corrupt" \/ seen.ema = "corrupt" =>
              sub_loads = <<"internal", "diffusers">>
         /\ raised = None
         /\ printed = <<>>
    /\ "internal" \in FailedStrategies /\ "diffusers" \in FailedStrategies =>
         \/ pc \in {"call_safetensors", "call_ckpt", "print", "raised"}
         \/ Len(attempts) >= 3 /\ attempts[3].strategy = "safetensors"

\* C9 witness: optimizer.pt is corrupt; the diffusers strategy loads the
\* sub-models again and its model, without training state, is returned.
C9_Witness ==
    /\ pc = "returned"
    /\ returned_by = Some("diffusers")
    /\ seen.optimizer = "corrupt"
    /\ sub_loads = <<"internal", "diffusers">>
    /\ NoTrainingState(result[1])
    /\ raised = None

\* C10: for a model type without a default config the internal and the
\* diffusers strategy never return; load returns a model only by safetensors
\* or ckpt and only with a sibling .yaml or .yml; otherwise load ends with
\* the 'could not load model' exception.
C10_NoDefaultConfig ==
    default_yaml_name(model_type) = None =>
      /\ returned_by \notin {Some("internal"), Some("diffusers")}
      /\ Len(attempts) >= 3 => {"internal", "diffusers"} \subseteq FailedStrategies
      /\ pc = "returned" =>
           /\ returned_by[1] \in {"safetensors", "ckpt"}
           /\ fs.yaml # "absent" \/ fs.yml # "absent"
      /\ pc = "raised" =>
           /\ raised[1].type = "Exception"
           /\ raised[1].msg[1] = "could not load model: "

====
